---- MODULE Spec2Model ----
(***************************************************************************)
(* Model of galette's fuse-map synthesizer (src/src/gal_builder.rs) and of *)
(* the OLMC setters that feed it (src/src/olmc.rs).                        *)
(*                                                                         *)
(* A Term is abstracted to its source line and its number of product rows; *)
(* a fuse row is abstracted to the pair <<line, k>> naming the k-th row of *)
(* the term that wrote it, <<0, 0>> for a row with every fuse at 0 (fresh  *)
(* or disabled) and <<0, 1>> for the all-intact row of the false term.     *)
(***************************************************************************)
EXTENDS Integers, Sequences, FiniteSets, TLC

VARIABLES
    procs,      \* the build invocations in flight
    blueprint,  \* blueprint[p]: the Blueprint build p reads
    draft,      \* the OLMCs under construction by the setters of olmc.rs
    jchip,      \* the chip of the draft (jedec.chip)
    perr,       \* error code returned by a setter, 0 when none
    jmode,      \* the mode analyse_mode_v8 set on the jedec, "unset" before
    pc,         \* pc[p]: the sub-step build p runs next
    v8mode,     \* v8mode[p]: the local `mode` of build_galxv8, "unset" before it is computed
    gal,        \* gal[p]: the GAL build p populates
    err,        \* err[p]: the Error build p returned
    log         \* log[p]: the add_term calls build p made, in order

vars == <<procs, blueprint, draft, jchip, perr, jmode, pc, v8mode, gal, err, log>>

----------------------------------------------------------------------------
(* Bounds of the model *)

\* configured (non-default) OLMCs per blueprint
MaxUsed == 2
\* configured OLMCs per OLMC array handed to get_mode_v8 alone
MaxModeUsed == 3
\* largest number of product rows of a main term
MaxRows == 9
\* largest number of product rows of a control term (enable, clock, ...)
MaxCtlRows == 2
\* setter calls per draft
MaxEqns == 2

----------------------------------------------------------------------------
(* Chips and geometry *)

Chips == {"GAL16V8", "GAL20V8", "GAL22V10", "GAL20RA10"}

IsV8(chip) == chip \in {"GAL16V8", "GAL20V8"}

NumOlmcs(chip) == IF IsV8(chip) THEN 8 ELSE 10

TotalRows(chip) ==
    CASE IsV8(chip) -> 64
      [] chip = "GAL22V10" -> 132
      [] chip = "GAL20RA10" -> 80

\* rows of each GAL22V10 OLMC region, tristate-enable row included
OlmcSize22V10 == <<9, 11, 13, 15, 17, 17, 15, 13, 11, 9>>

RECURSIVE StartRow22V10(_)
StartRow22V10(i) ==
    IF i = 0 THEN 1 ELSE StartRow22V10(i - 1) + OlmcSize22V10[i]

Bounds(start, maxr, off) ==
    [start_row |-> start, max_row |-> maxr, row_offset |-> off]

get_bounds(chip, i) ==
    IF chip = "GAL22V10"
    THEN Bounds(StartRow22V10(i), OlmcSize22V10[i + 1], 0)
    ELSE Bounds(8 * i, 8, 0)

----------------------------------------------------------------------------
(* Terms, OLMCs, blueprints *)

NoTerm == [some |-> FALSE, line_num |-> 0, rows |-> 0]

Term(line, n) == [some |-> TRUE, line_num |-> line, rows |-> n]

false_term(line) == Term(line, 0)

NoOutput == [some |-> FALSE, mode |-> "None", term |-> NoTerm]

Output(mode, term) == [some |-> TRUE, mode |-> mode, term |-> term]

DefaultOlmc ==
    [active |-> "Low", output |-> NoOutput, tri_con |-> NoTerm,
     clock |-> NoTerm, arst |-> NoTerm, aprst |-> NoTerm, feedback |-> FALSE]

NoErr == [code |-> "none", line |-> 0]

at_line(line, code) == [code |-> code, line |-> line]

----------------------------------------------------------------------------
(* The GAL *)

ZeroRow == <<0, 0>>

IntactRow == <<0, 1>>

GALnew(chip) ==
    [chip  |-> chip,
     fuses |-> [r \in 0 .. TotalRows(chip) - 1 |-> ZeroRow],
     xor   |-> [k \in 0 .. NumOlmcs(chip) - 1 |-> FALSE],
     sig   |-> [k \in 0 .. 63 |-> FALSE],
     ac1   |-> [k \in 0 .. 7 |-> FALSE],
     s1    |-> [k \in 0 .. 9 |-> FALSE],
     pt    |-> [k \in 0 .. 63 |-> FALSE],
     syn   |-> FALSE,
     ac0   |-> FALSE]

\* No GAL: the value of gal[p] before build p allocates one.
NoGal ==
    [chip |-> "none", fuses |-> <<>>, xor |-> <<>>, sig |-> <<>>, ac1 |-> <<>>,
     s1 |-> <<>>, pt |-> <<>>, syn |-> FALSE, ac0 |-> FALSE]

set_mode(g, mode) ==
    CASE mode = "Mode1" -> [g EXCEPT !.syn = TRUE, !.ac0 = FALSE]
      [] mode = "Mode2" -> [g EXCEPT !.syn = TRUE, !.ac0 = TRUE]
      [] mode = "Mode3" -> [g EXCEPT !.syn = FALSE, !.ac0 = TRUE]

get_mode(g) ==
    CASE g.syn /\ ~g.ac0 -> "Mode1"
      [] g.syn /\ g.ac0 -> "Mode2"
      [] ~g.syn /\ g.ac0 -> "Mode3"
      [] OTHER -> "Invalid"

\* A build in progress: the GAL, the add_term calls so far, the error if any.
BuildState(g, l, e) == [gal |-> g, log |-> l, err |-> e]

Writable(b) == b.start_row + b.row_offset .. b.start_row + b.max_row - 1

clear_rows(g, b) ==
    [g EXCEPT !.fuses =
        [r \in DOMAIN g.fuses |-> IF r \in Writable(b) THEN ZeroRow ELSE g.fuses[r]]]

add_term(st, term, b) ==
    LET first == b.start_row + b.row_offset
        entry == [term |-> term, bounds |-> b]
        l2 == Append(st.log, entry)
    IN  IF term.rows > b.max_row - b.row_offset
        THEN BuildState(st.gal, l2, at_line(term.line_num, "TooManyProductTerms"))
        ELSE BuildState(
                [st.gal EXCEPT !.fuses =
                    [r \in DOMAIN st.gal.fuses |->
                        IF r \in Writable(b)
                        THEN IF r - first < term.rows THEN <<term.line_num, r - first + 1>>
                             ELSE IF term.rows = 0 /\ r = first THEN IntactRow
                             ELSE ZeroRow
                        ELSE st.gal.fuses[r]]],
                l2, st.err)

add_term_opt(st, opt, b) ==
    IF opt.some THEN add_term(st, opt, b)
    ELSE BuildState(clear_rows(st.gal, b), st.log, st.err)

----------------------------------------------------------------------------
(* gal_builder.rs: the common sub-steps *)

Pow2(j) == 2 ^ j

\* Mutant of ShlBit7: the byte is shifted right, so bits are packed LSB-first.
ShrBit0(c, j) == (c \div Pow2(j)) % 2 = 1

\* (c << j) & 0x80 != 0 on a u8
ShlBit7(c, j) == (((c * Pow2(j)) % 256) \div 128) % 2 = 1

RECURSIVE set_sig_from(_, _, _)
set_sig_from(sig, bits, i) ==
    IF i >= (IF Len(sig) < 8 THEN Len(sig) ELSE 8) THEN bits
    ELSE set_sig_from(sig,
            [k \in DOMAIN bits |->
                IF k \in i * 8 .. i * 8 + 7 THEN ShlBit7(sig[i + 1], k - i * 8)
                ELSE bits[k]],
            i + 1)

set_sig(bp, g) == [g EXCEPT !.sig = set_sig_from(bp.sig, g.sig, 0)]

\* Mutant of tristate_adjust: the first row of a V8 region is reserved in Mode 1 too.
tristate_adjust_any_mode(g, output, b) ==
    CASE IsV8(g.chip) ->
            LET reg_out == output.some /\ output.mode = "Registered"
            IN  IF ~reg_out THEN [b EXCEPT !.row_offset = 1] ELSE b
      [] g.chip = "GAL22V10" -> [b EXCEPT !.row_offset = 1]
      [] g.chip = "GAL20RA10" -> [b EXCEPT !.row_offset = 4]

\* Mutant of tristate_adjust: a registered V8 output is shifted like the others.
tristate_adjust_no_reg(g, output, b) ==
    CASE IsV8(g.chip) ->
            IF get_mode(g) # "Mode1" THEN [b EXCEPT !.row_offset = 1] ELSE b
      [] g.chip = "GAL22V10" -> [b EXCEPT !.row_offset = 1]
      [] g.chip = "GAL20RA10" -> [b EXCEPT !.row_offset = 4]

tristate_adjust(g, output, b) ==
    CASE IsV8(g.chip) ->
            LET reg_out == output.some /\ output.mode = "Registered"
            IN  IF get_mode(g) # "Mode1" /\ ~reg_out
                THEN [b EXCEPT !.row_offset = 1]
                ELSE b
      [] g.chip = "GAL22V10" -> [b EXCEPT !.row_offset = 1]
      [] g.chip = "GAL20RA10" -> [b EXCEPT !.row_offset = 4]

\* Mutant of core_eqn: the result of placing the enable term is not propagated.
core_eqn_enable_unchecked(st, olmc, i) ==
    LET b == get_bounds(st.gal.chip, i)
        s1 == IF olmc.output.some
              THEN add_term(st, olmc.output.term, tristate_adjust(st.gal, olmc.output, b))
              ELSE add_term(st, false_term(0), b)
    IN  IF s1.err # NoErr THEN s1
        ELSE IF olmc.tri_con.some
        THEN [add_term(s1, olmc.tri_con, [b EXCEPT !.row_offset = 0, !.max_row = 1])
                EXCEPT !.err = NoErr]
        ELSE s1

\* One iteration of the loop of set_core_eqns: the main term, then the enable.
core_eqn(st, olmc, i) ==
    LET b == get_bounds(st.gal.chip, i)
        s1 == IF olmc.output.some
              THEN add_term(st, olmc.output.term, tristate_adjust(st.gal, olmc.output, b))
              ELSE add_term(st, false_term(0), b)
    IN  IF s1.err # NoErr THEN s1
        ELSE IF olmc.tri_con.some
        THEN add_term(s1, olmc.tri_con, [b EXCEPT !.row_offset = 0, !.max_row = 1])
        ELSE s1

RECURSIVE set_core_eqns_from(_, _, _)
set_core_eqns_from(st, bp, i) ==
    IF i = NumOlmcs(bp.chip) THEN st
    ELSE LET s == core_eqn(st, bp.olmcs[i], i)
         IN  IF s.err # NoErr THEN s ELSE set_core_eqns_from(s, bp, i + 1)

set_core_eqns(st, bp) == set_core_eqns_from(st, bp, 0)

\* Mutant of aux_eqn: a registered output is not required to have a clock.
aux_eqn_clock_optional(st, olmc, i) ==
    LET b == get_bounds(st.gal.chip, i)
    IN  IF ~olmc.output.some THEN st
        ELSE IF olmc.output.mode = "Registered"
        THEN LET s1 == add_term_opt(st, olmc.arst, [b EXCEPT !.row_offset = 2, !.max_row = 3])
                 s2 == IF s1.err # NoErr THEN s1
                       ELSE add_term_opt(s1, olmc.aprst, [b EXCEPT !.row_offset = 3, !.max_row = 4])
             IN  IF s2.err # NoErr THEN s2
                 ELSE add_term_opt(s2, olmc.clock, [b EXCEPT !.row_offset = 1, !.max_row = 2])
        ELSE add_term_opt(st, olmc.clock, [b EXCEPT !.row_offset = 1, !.max_row = 2])

\* One iteration of the loop of set_aux_eqns.
aux_eqn(st, olmc, i) ==
    LET b == get_bounds(st.gal.chip, i)
    IN  IF ~olmc.output.some THEN st
        ELSE IF olmc.output.mode = "Registered"
        THEN LET s1 == add_term_opt(st, olmc.arst, [b EXCEPT !.row_offset = 2, !.max_row = 3])
                 s2 == IF s1.err # NoErr THEN s1
                       ELSE add_term_opt(s1, olmc.aprst, [b EXCEPT !.row_offset = 3, !.max_row = 4])
             IN  IF s2.err # NoErr THEN s2
                 ELSE IF ~olmc.clock.some
                 THEN [s2 EXCEPT !.err = at_line(olmc.output.term.line_num, "NoCLK")]
                 ELSE add_term_opt(s2, olmc.clock, [b EXCEPT !.row_offset = 1, !.max_row = 2])
        ELSE add_term_opt(st, olmc.clock, [b EXCEPT !.row_offset = 1, !.max_row = 2])

RECURSIVE set_aux_eqns_from(_, _, _)
set_aux_eqns_from(st, bp, i) ==
    IF i = NumOlmcs(bp.chip) THEN st
    ELSE LET s == aux_eqn(st, bp.olmcs[i], i)
         IN  IF s.err # NoErr THEN s ELSE set_aux_eqns_from(s, bp, i + 1)

set_aux_eqns(st, bp) == set_aux_eqns_from(st, bp, 0)

set_arsp_eqns(st, bp) ==
    LET s1 == add_term_opt(st, bp.ar, Bounds(0, 1, 0))
    IN  IF s1.err # NoErr THEN s1
        ELSE add_term_opt(s1, bp.sp, Bounds(131, 1, 0))

set_pts(g) == [g EXCEPT !.pt = [k \in DOMAIN g.pt |-> TRUE]]

\* Mutant of check_from: the reset term is looked at before the clock.
RECURSIVE check_from_arst_first(_, _)
check_from_arst_first(bp, i) ==
    IF i = NumOlmcs(bp.chip) THEN NoErr
    ELSE LET olmc == bp.olmcs[i]
         IN  IF olmc.arst.some THEN at_line(olmc.arst.line_num, "DisallowedARST")
             ELSE IF olmc.clock.some THEN at_line(olmc.clock.line_num, "DisallowedCLK")
             ELSE IF olmc.aprst.some THEN at_line(olmc.aprst.line_num, "DisallowedAPRST")
             ELSE check_from_arst_first(bp, i + 1)

RECURSIVE check_from(_, _)
check_from(bp, i) ==
    IF i = NumOlmcs(bp.chip) THEN NoErr
    ELSE LET olmc == bp.olmcs[i]
         IN  IF olmc.clock.some THEN at_line(olmc.clock.line_num, "DisallowedCLK")
             ELSE IF olmc.arst.some THEN at_line(olmc.arst.line_num, "DisallowedARST")
             ELSE IF olmc.aprst.some THEN at_line(olmc.aprst.line_num, "DisallowedAPRST")
             ELSE check_from(bp, i + 1)

check_not_gal20ra10(bp) == check_from(bp, 0)

\* Mutant of xor_index: the bit is not mirrored.
xor_index_unmirrored(num_olmcs, i) == i

\* The bit set_xors writes for OLMC i.
xor_index(num_olmcs, i) == num_olmcs - 1 - i

RECURSIVE set_xors_from(_, _, _)
set_xors_from(xor, bp, i) ==
    IF i = NumOlmcs(bp.chip) THEN xor
    ELSE LET olmc == bp.olmcs[i]
         IN  set_xors_from(
                IF olmc.output.some /\ olmc.active = "High"
                THEN [xor EXCEPT ![xor_index(NumOlmcs(bp.chip), i)] = TRUE]
                ELSE xor,
                bp, i + 1)

set_xors(g, bp) == [g EXCEPT !.xor = set_xors_from(g.xor, bp, 0)]

\* Mutant of is_tristate: a combinatorial output is always flagged.
is_tristate_com_always(olmc, com_is_tri) ==
    CASE ~olmc.output.some -> olmc.feedback
      [] olmc.output.mode = "Tristate" -> TRUE
      [] olmc.output.mode = "Combinatorial" -> TRUE
      [] olmc.output.mode = "Registered" -> FALSE

is_tristate(olmc, com_is_tri) ==
    CASE ~olmc.output.some -> olmc.feedback
      [] olmc.output.mode = "Tristate" -> TRUE
      [] olmc.output.mode = "Combinatorial" -> com_is_tri
      [] olmc.output.mode = "Registered" -> FALSE

RECURSIVE build_tristate_flags_from(_, _, _, _)
build_tristate_flags_from(flags, bp, com_is_tri, i) ==
    IF i = NumOlmcs(bp.chip) THEN flags
    ELSE build_tristate_flags_from(
            IF is_tristate(bp.olmcs[i], com_is_tri)
            THEN [flags EXCEPT ![NumOlmcs(bp.chip) - 1 - i] = TRUE]
            ELSE flags,
            bp, com_is_tri, i + 1)

build_tristate_flags(flags, bp, com_is_tri) ==
    build_tristate_flags_from(flags, bp, com_is_tri, 0)

----------------------------------------------------------------------------
(* gal_builder.rs: GALxV8 analysis *)

RECURSIVE any_registered(_, _)
any_registered(olmcs, n) ==
    IF n = 8 THEN FALSE
    ELSE IF olmcs[n].output.some /\ olmcs[n].output.mode = "Registered" THEN TRUE
    ELSE any_registered(olmcs, n + 1)

RECURSIVE any_tristate(_, _)
any_tristate(olmcs, n) ==
    IF n = 8 THEN FALSE
    ELSE IF olmcs[n].output.some /\ olmcs[n].output.mode = "Tristate" THEN TRUE
    ELSE any_tristate(olmcs, n + 1)

\* Mutant of mode1_unusable: the input-only restriction sits on OLMCs 4 and 5.
RECURSIVE mode1_unusable_shifted(_, _)
mode1_unusable_shifted(olmcs, n) ==
    IF n = 8 THEN FALSE
    ELSE IF olmcs[n].feedback /\ ~olmcs[n].output.some /\ (n = 4 \/ n = 5) THEN TRUE
    ELSE IF olmcs[n].feedback /\ olmcs[n].output.some THEN TRUE
    ELSE mode1_unusable_shifted(olmcs, n + 1)

RECURSIVE mode1_unusable(_, _)
mode1_unusable(olmcs, n) ==
    IF n = 8 THEN FALSE
    ELSE IF olmcs[n].feedback /\ ~olmcs[n].output.some /\ (n = 3 \/ n = 4) THEN TRUE
    ELSE IF olmcs[n].feedback /\ olmcs[n].output.some THEN TRUE
    ELSE mode1_unusable(olmcs, n + 1)

get_mode_v8(olmcs) ==
    IF any_registered(olmcs, 0) THEN "Mode3"
    ELSE IF any_tristate(olmcs, 0) THEN "Mode2"
    ELSE IF mode1_unusable(olmcs, 0) THEN "Mode2"
    ELSE "Mode1"

----------------------------------------------------------------------------
(* olmc.rs: the OLMC under construction and its setters.  A setter returns  *)
(* the OLMC as it leaves it and its error code, 0 for Ok.                   *)

TriNone == [kind |-> "None", term |-> NoTerm]

TriSome(term) == [kind |-> "Some", term |-> term]

NewOLMC ==
    [active |-> "LOW", pin_type |-> "UNDRIVEN", output |-> NoTerm, tri_con |-> TriNone,
     clock |-> NoTerm, arst |-> NoTerm, aprst |-> NoTerm, feedback |-> FALSE]

Returned(o, code) == [olmc |-> o, code |-> code]

set_base(o, chip, neg, is_arsp, term, suffix) ==
    IF o.output.some
    THEN Returned(o, IF chip = "GAL22V10" /\ is_arsp THEN 40 ELSE 16)
    ELSE Returned([o EXCEPT !.output = term,
                            !.active = IF neg # 0 THEN "LOW" ELSE "HIGH",
                            !.pin_type = CASE suffix = "T" -> "TRIOUT"
                                           [] suffix = "R" -> "REGOUT"
                                           [] suffix = "NON" -> "COMTRIOUT"],
                  0)

\* Mutant of set_enable: an enable on a combinatorial output is accepted.
set_enable_on_com(o, chip, neg, term) ==
    IF neg # 0 THEN Returned(o, 19)
    ELSE IF o.tri_con # TriNone THEN Returned(o, 22)
    ELSE LET o2 == [o EXCEPT !.tri_con = TriSome(term)]
         IN  IF o2.pin_type = "UNDRIVEN" THEN Returned(o2, 17)
             ELSE IF o2.pin_type = "REGOUT" /\ IsV8(chip) THEN Returned(o2, 23)
             ELSE Returned(o2, 0)

set_enable(o, chip, neg, term) ==
    IF neg # 0 THEN Returned(o, 19)
    ELSE IF o.tri_con # TriNone THEN Returned(o, 22)
    ELSE LET o2 == [o EXCEPT !.tri_con = TriSome(term)]
         IN  IF o2.pin_type = "UNDRIVEN" THEN Returned(o2, 17)
             ELSE IF o2.pin_type = "REGOUT" /\ IsV8(chip) THEN Returned(o2, 23)
             ELSE IF o2.pin_type = "COMTRIOUT" THEN Returned(o2, 24)
             ELSE Returned(o2, 0)

set_clock(o, neg, term) ==
    IF neg # 0 THEN Returned(o, 19)
    ELSE IF o.pin_type = "UNDRIVEN" THEN Returned(o, 42)
    ELSE IF o.clock.some THEN Returned(o, 45)
    ELSE LET o2 == [o EXCEPT !.clock = term]
         IN  IF o2.pin_type # "REGOUT" THEN Returned(o2, 48) ELSE Returned(o2, 0)

set_arst(o, neg, term) ==
    IF neg # 0 THEN Returned(o, 19)
    ELSE IF o.pin_type = "UNDRIVEN" THEN Returned(o, 43)
    ELSE IF o.arst.some THEN Returned(o, 46)
    ELSE LET o2 == [o EXCEPT !.arst = term]
         IN  IF o2.pin_type # "REGOUT" THEN Returned(o2, 48) ELSE Returned(o2, 0)

set_aprst(o, neg, term) ==
    IF neg # 0 THEN Returned(o, 19)
    ELSE IF o.pin_type = "UNDRIVEN" THEN Returned(o, 44)
    ELSE IF o.aprst.some THEN Returned(o, 47)
    ELSE LET o2 == [o EXCEPT !.aprst = term]
         IN  IF o2.pin_type # "REGOUT" THEN Returned(o2, 48) ELSE Returned(o2, 0)

(* olmc.rs: the mode analysis of the GALxV8 on pin types *)

RECURSIVE any_pin_type(_, _, _)
any_pin_type(olmcs, pin_type, n) ==
    IF n = 8 THEN FALSE
    ELSE IF olmcs[n].pin_type = pin_type THEN TRUE
    ELSE any_pin_type(olmcs, pin_type, n + 1)

RECURSIVE mode1_unusable_pins(_, _, _)
mode1_unusable_pins(chip, olmcs, n) ==
    IF n = 8 THEN FALSE
    ELSE IF /\ olmcs[n].feedback /\ olmcs[n].pin_type = "UNDRIVEN"
            /\ \/ chip = "GAL16V8" /\ (n + 12 = 15 \/ n + 12 = 16)
               \/ chip = "GAL20V8" /\ (n + 15 = 18 \/ n + 15 = 19)
    THEN TRUE
    ELSE IF olmcs[n].feedback /\ olmcs[n].pin_type = "COMTRIOUT" THEN TRUE
    ELSE mode1_unusable_pins(chip, olmcs, n + 1)

get_mode_v8_pins(chip, olmcs) ==
    IF any_pin_type(olmcs, "REGOUT", 0) THEN "Mode3"
    ELSE IF any_pin_type(olmcs, "TRIOUT", 0) THEN "Mode2"
    ELSE IF mode1_unusable_pins(chip, olmcs, 0) THEN "Mode2"
    ELSE "Mode1"

\* The blueprint OLMC of an OLMC built by the setters.
ToBlueprintOlmc(o) ==
    [active   |-> IF o.active = "HIGH" THEN "High" ELSE "Low",
     output   |-> CASE o.pin_type = "UNDRIVEN" -> NoOutput
                    [] o.pin_type = "COMTRIOUT" -> Output("Combinatorial", o.output)
                    [] o.pin_type = "TRIOUT" -> Output("Tristate", o.output)
                    [] o.pin_type = "REGOUT" -> Output("Registered", o.output),
     tri_con  |-> IF o.tri_con.kind = "Some" THEN o.tri_con.term ELSE NoTerm,
     clock    |-> o.clock,
     arst     |-> o.arst,
     aprst    |-> o.aprst,
     feedback |-> o.feedback]

----------------------------------------------------------------------------
(* gal_builder.rs: build and the chip-specific builders, one action per     *)
(* sub-step call.  pc[p] names the call build p makes next.                 *)

FirstStep(chip) == IF chip = "GAL20RA10" THEN "sig" ELSE "check"

\* The call that follows `step` in build_galxv8, build_gal22v10, build_gal20ra10.
After(chip, step) ==
    CASE IsV8(chip) ->
            (CASE step = "check" -> "sig"
               [] step = "sig" -> "mode"
               [] step = "mode" -> "core"
               [] step = "core" -> "flags"
               [] step = "flags" -> "xors"
               [] step = "xors" -> "pts"
               [] step = "pts" -> "ok")
      [] chip = "GAL22V10" ->
            (CASE step = "check" -> "sig"
               [] step = "sig" -> "flags"
               [] step = "flags" -> "core"
               [] step = "core" -> "arsp"
               [] step = "arsp" -> "xors"
               [] step = "xors" -> "ok")
      [] chip = "GAL20RA10" ->
            (CASE step = "sig" -> "core"
               [] step = "core" -> "aux"
               [] step = "aux" -> "xors"
               [] step = "xors" -> "ok")

Cur(p) == BuildState(gal[p], log[p], err[p])

\* Mutant of Advance: the builds write one GAL between them.
Advance_shared_gal(p, step, st) ==
    /\ gal' = [q \in procs |-> st.gal]
    /\ log' = [log EXCEPT ![p] = st.log]
    /\ err' = [err EXCEPT ![p] = st.err]
    /\ pc' = [pc EXCEPT ![p] = IF st.err # NoErr THEN "failed"
                                ELSE After(blueprint[p].chip, step)]
    /\ UNCHANGED <<procs, blueprint, draft, jchip, perr, jmode>>

\* Sub-step `step` of build p ended in state st: go on, or return its error.
Advance(p, step, st) ==
    /\ gal' = [gal EXCEPT ![p] = st.gal]
    /\ log' = [log EXCEPT ![p] = st.log]
    /\ err' = [err EXCEPT ![p] = st.err]
    /\ pc' = [pc EXCEPT ![p] = IF st.err # NoErr THEN "failed"
                                ELSE After(blueprint[p].chip, step)]
    /\ UNCHANGED <<procs, blueprint, draft, jchip, perr, jmode>>

Build(p) ==
    /\ pc[p] = "idle"
    /\ gal' = [gal EXCEPT ![p] = GALnew(blueprint[p].chip)]
    /\ pc' = [pc EXCEPT ![p] = FirstStep(blueprint[p].chip)]
    /\ UNCHANGED <<procs, blueprint, draft, jchip, perr, jmode, v8mode, err, log>>

CheckNotGal20ra10(p) ==
    /\ pc[p] = "check"
    /\ Advance(p, "check", [Cur(p) EXCEPT !.err = check_not_gal20ra10(blueprint[p])])
    /\ UNCHANGED v8mode

SetSig(p) ==
    /\ pc[p] = "sig"
    /\ Advance(p, "sig", [Cur(p) EXCEPT !.gal = set_sig(blueprint[p], gal[p])])
    /\ UNCHANGED v8mode

SetMode(p) ==
    /\ pc[p] = "mode"
    /\ LET m == get_mode_v8(blueprint[p].olmcs)
       IN  /\ v8mode' = [v8mode EXCEPT ![p] = m]
           /\ Advance(p, "mode", [Cur(p) EXCEPT !.gal = set_mode(gal[p], m)])

SetCoreEqns(p) ==
    /\ pc[p] = "core"
    /\ Advance(p, "core", set_core_eqns(Cur(p), blueprint[p]))
    /\ UNCHANGED v8mode

BuildTristateFlags(p) ==
    /\ pc[p] = "flags"
    /\ IF IsV8(blueprint[p].chip)
       THEN Advance(p, "flags", [Cur(p) EXCEPT !.gal.ac1 =
                build_tristate_flags(gal[p].ac1, blueprint[p], v8mode[p] # "Mode1")])
       ELSE Advance(p, "flags", [Cur(p) EXCEPT !.gal.s1 =
                build_tristate_flags(gal[p].s1, blueprint[p], TRUE)])
    /\ UNCHANGED v8mode

SetArspEqns(p) ==
    /\ pc[p] = "arsp"
    /\ Advance(p, "arsp", set_arsp_eqns(Cur(p), blueprint[p]))
    /\ UNCHANGED v8mode

SetAuxEqns(p) ==
    /\ pc[p] = "aux"
    /\ Advance(p, "aux", set_aux_eqns(Cur(p), blueprint[p]))
    /\ UNCHANGED v8mode

SetXors(p) ==
    /\ pc[p] = "xors"
    /\ Advance(p, "xors", [Cur(p) EXCEPT !.gal = set_xors(gal[p], blueprint[p])])
    /\ UNCHANGED v8mode

SetPts(p) ==
    /\ pc[p] = "pts"
    /\ Advance(p, "pts", [Cur(p) EXCEPT !.gal = set_pts(gal[p])])
    /\ UNCHANGED v8mode

\* One call of the chip-specific builder, as a function of the state before it.
build_step(bp, step, st) ==
    CASE step = "check" -> [st EXCEPT !.err = check_not_gal20ra10(bp)]
      [] step = "sig" -> [st EXCEPT !.gal = set_sig(bp, st.gal)]
      [] step = "mode" -> [st EXCEPT !.gal = set_mode(st.gal, get_mode_v8(bp.olmcs))]
      [] step = "core" -> set_core_eqns(st, bp)
      [] step = "flags" ->
            IF IsV8(bp.chip)
            THEN [st EXCEPT !.gal.ac1 =
                    build_tristate_flags(st.gal.ac1, bp, get_mode_v8(bp.olmcs) # "Mode1")]
            ELSE [st EXCEPT !.gal.s1 = build_tristate_flags(st.gal.s1, bp, TRUE)]
      [] step = "arsp" -> set_arsp_eqns(st, bp)
      [] step = "aux" -> set_aux_eqns(st, bp)
      [] step = "xors" -> [st EXCEPT !.gal = set_xors(st.gal, bp)]
      [] step = "pts" -> [st EXCEPT !.gal = set_pts(st.gal)]

RECURSIVE build_from(_, _, _)
build_from(bp, step, st) ==
    IF step = "ok" THEN st
    ELSE LET s == build_step(bp, step, st)
         IN  IF s.err # NoErr THEN s ELSE build_from(bp, After(bp.chip, step), s)

\* build run from its first call to its return, nothing else running.
build(bp) == build_from(bp, FirstStep(bp.chip), BuildState(GALnew(bp.chip), <<>>, NoErr))

BuildNext ==
    \E p \in procs :
        \/ Build(p)
        \/ CheckNotGal20ra10(p)
        \/ SetSig(p)
        \/ SetMode(p)
        \/ SetCoreEqns(p)
        \/ BuildTristateFlags(p)
        \/ SetArspEqns(p)
        \/ SetAuxEqns(p)
        \/ SetXors(p)
        \/ SetPts(p)

----------------------------------------------------------------------------
(* The blueprints build is run on *)

OutputModes == {"Combinatorial", "Tristate", "Registered"}

\* Every term of a blueprint sits on a line of its own.
Line(i, f) == 5 * i + f

ArLine == Line(10, 1)

SpLine == Line(10, 2)

Opt(line, n) == IF n = 0 THEN NoTerm ELSE Term(line, n)

Cfg(m, r, a, fb, t, c, ar, ap) ==
    [mode |-> m, rows |-> r, active |-> a, feedback |-> fb,
     tri |-> t, clock |-> c, arst |-> ar, aprst |-> ap]

MkOlmc(i, c) ==
    [active   |-> c.active,
     output   |-> IF c.mode = "None" THEN NoOutput
                  ELSE Output(c.mode, Term(Line(i, 1), c.rows)),
     tri_con  |-> Opt(Line(i, 2), c.tri),
     clock    |-> Opt(Line(i, 3), c.clock),
     arst     |-> Opt(Line(i, 4), c.arst),
     aprst    |-> Opt(Line(i, 5), c.aprst),
     feedback |-> c.feedback]

\* Row counts of a main term: one row, a full V8 region less one, and the largest.
MainRows == {1, MaxRows - 1, MaxRows}

\* Row counts of a control term: absent, one row, too many.
CtlRows == {0, 1, MaxCtlRows}

\* Roles: every output kind, polarity and feedback.
RoleCfgs ==
    { Cfg(m, IF m = "None" THEN 0 ELSE 1, a, fb, 0, 0, 0, 0) :
        m \in OutputModes \cup {"None"}, a \in {"High", "Low"}, fb \in BOOLEAN }

\* Sizes: main terms and enables of every size.
SizeCfgs ==
    { Cfg("Tristate", r, "High", FALSE, t, 0, 0, 0) : r \in MainRows, t \in CtlRows }
    \cup { Cfg(m, r, "High", FALSE, 0, 0, 0, 0) :
            m \in {"Combinatorial", "Registered"}, r \in MainRows \ {1} }
    \cup { Cfg("Registered", 1, "High", FALSE, 1, 0, 0, 0),
           Cfg("Combinatorial", 1, "High", FALSE, 1, 0, 0, 0),
           Cfg("None", 0, "Low", FALSE, 1, 0, 0, 0) }

\* Clock, reset and preset terms, at most MaxCtlRows rows of them per OLMC.
AuxCfgs ==
    { Cfg("Registered", 1, "High", FALSE, 0, t[1], t[2], t[3]) :
        t \in { u \in CtlRows \X CtlRows \X CtlRows : u[1] + u[2] + u[3] <= MaxCtlRows } }
    \cup { Cfg("Combinatorial", 1, "High", FALSE, 0, 1, 0, 0),
           Cfg("Combinatorial", 1, "High", FALSE, 0, 0, 1, 0),
           Cfg("Registered", MaxRows, "High", FALSE, 0, 0, 0, 0) }

\* The OLMCs a blueprint of the model configures: the first, the two that
\* Mode 1 cannot use as inputs, and the last.
Rep(chip) == {0, 3, 4, NumOlmcs(chip) - 1}

SigSample == <<165, 1>>

Blueprint(chip, sig, olmcs, ar, sp) ==
    [chip |-> chip, sig |-> sig, olmcs |-> olmcs, ar |-> ar, sp |-> sp]

\* The OLMC array that configures the OLMCs of S as a says and leaves the rest default.
Olmcs(chip, S, a) ==
    [i \in 0 .. NumOlmcs(chip) - 1 |-> IF i \in S THEN MkOlmc(i, a[i]) ELSE DefaultOlmc]

Families == {"roles", "sizes", "aux", "arsp"}

FamilyCfgs(fam) ==
    CASE fam = "roles" -> RoleCfgs
      [] fam = "sizes" -> SizeCfgs
      [] fam = "aux" -> AuxCfgs
      [] fam = "arsp" -> {Cfg("Registered", 1, "High", FALSE, 0, 0, 0, 0)}

\* The sets of OLMCs a blueprint of family fam configures.
Selections(chip, fam) ==
    { T \in SUBSET Rep(chip) : Cardinality(T) <= (IF fam = "arsp" THEN 1 ELSE MaxUsed) }

\* The global AR and SP terms are drawn in family arsp only.
ArspRows(fam) == IF fam = "arsp" THEN CtlRows ELSE {0}

InitBuild(ps) ==
    /\ procs = ps
    /\ pc = [p \in ps |-> "idle"]
    /\ v8mode = [p \in ps |-> "unset"]
    /\ gal = [p \in ps |-> NoGal]
    /\ err = [p \in ps |-> NoErr]
    /\ log = [p \in ps |-> <<>>]

NoDraft ==
    /\ draft = <<>>
    /\ jchip = "none"
    /\ perr = 0
    /\ jmode = "unset"

Init ==
    /\ InitBuild({1})
    /\ \E chip \in Chips, fam \in Families :
        \E S \in Selections(chip, fam) :
            \E a \in [S -> FamilyCfgs(fam)], x \in ArspRows(fam), y \in ArspRows(fam) :
                blueprint = [p \in {1} |->
                    Blueprint(chip, SigSample, Olmcs(chip, S, a),
                              Opt(ArLine, x), Opt(SpLine, y))]
    /\ NoDraft

Next == BuildNext

Spec == Init /\ [][Next]_vars

----------------------------------------------------------------------------
(* The setters at work: a draft is built by at most MaxEqns setter calls on *)
(* the OLMCs of Rep, the first error rejects it, and an accepted draft is   *)
(* handed to build as a blueprint.                                          *)

Parsing == \A p \in procs : pc[p] = "parse"

Count(S) == Cardinality(S)

EqnCount(d) ==
    Count({i \in DOMAIN d : d[i].output.some})
    + Count({i \in DOMAIN d : d[i].tri_con # TriNone})
    + Count({i \in DOMAIN d : d[i].clock.some})
    + Count({i \in DOMAIN d : d[i].arst.some})
    + Count({i \in DOMAIN d : d[i].aprst.some})

CanSet == Parsing /\ perr = 0 /\ EqnCount(draft) < MaxEqns

Setter(i, r) ==
    /\ draft' = [draft EXCEPT ![i] = r.olmc]
    /\ perr' = r.code
    /\ UNCHANGED <<procs, blueprint, jchip, jmode, pc, v8mode, gal, err, log>>

SetBase(i, neg, is_arsp, suffix) ==
    /\ CanSet
    /\ Setter(i, set_base(draft[i], jchip, neg, is_arsp, Term(Line(i, 1), 1), suffix))

SetEnable(i, neg, rows) ==
    /\ CanSet
    /\ Setter(i, set_enable(draft[i], jchip, neg, Term(Line(i, 2), rows)))

SetClock(i, neg) ==
    /\ CanSet
    /\ Setter(i, set_clock(draft[i], neg, Term(Line(i, 3), 1)))

SetArst(i, neg) ==
    /\ CanSet
    /\ Setter(i, set_arst(draft[i], neg, Term(Line(i, 4), 1)))

SetAprst(i, neg) ==
    /\ CanSet
    /\ Setter(i, set_aprst(draft[i], neg, Term(Line(i, 5), 1)))

\* The blueprint of a draft (the blueprint's own constructor is not in src/).
ToBlueprint(chip, d) ==
    Blueprint(chip, SigSample, [i \in DOMAIN d |-> ToBlueprintOlmc(d[i])], NoTerm, NoTerm)

FinishDraft ==
    /\ Parsing
    /\ perr = 0
    /\ blueprint' = [p \in procs |-> ToBlueprint(jchip, draft)]
    /\ pc' = [p \in procs |-> "idle"]
    /\ UNCHANGED <<procs, draft, jchip, perr, jmode, v8mode, gal, err, log>>

ParseNext ==
    \/ \E i \in Rep(jchip), neg \in {0, 1} :
        \/ \E is_arsp \in BOOLEAN, suffix \in {"T", "R", "NON"} : SetBase(i, neg, is_arsp, suffix)
        \/ \E rows \in {1, MaxCtlRows} : SetEnable(i, neg, rows)
        \/ SetClock(i, neg)
        \/ SetArst(i, neg)
        \/ SetAprst(i, neg)
    \/ FinishDraft

\* The OLMCs other equations read back, drawn with the draft.
FeedbackSets == {{}, {0}, {3}}

InitParse ==
    /\ procs = {1}
    /\ jchip \in Chips
    /\ \E F \in FeedbackSets :
        draft = [i \in 0 .. NumOlmcs(jchip) - 1 |->
                    IF i \in F THEN [NewOLMC EXCEPT !.feedback = TRUE] ELSE NewOLMC]
    /\ perr = 0
    /\ jmode = "unset"
    /\ blueprint = [p \in procs |-> ToBlueprint(jchip, draft)]
    /\ pc = [p \in procs |-> "parse"]
    /\ v8mode = [p \in procs |-> "unset"]
    /\ gal = [p \in procs |-> NoGal]
    /\ err = [p \in procs |-> NoErr]
    /\ log = [p \in procs |-> <<>>]

SpecParse == InitParse /\ [][ParseNext \/ BuildNext]_vars

----------------------------------------------------------------------------
(* get_mode_v8 alone: both versions applied to the same eight OLMCs, at     *)
(* most MaxModeUsed of them configured.                                     *)

PinTypes == {"UNDRIVEN", "COMTRIOUT", "TRIOUT", "REGOUT"}

PinOlmc(i, pin_type, fb) ==
    [NewOLMC EXCEPT !.pin_type = pin_type,
                    !.output = IF pin_type = "UNDRIVEN" THEN NoTerm ELSE Term(Line(i, 1), 1),
                    !.active = "HIGH",
                    !.feedback = fb]

AnalyseModeV8 ==
    /\ ~Parsing
    /\ perr = 0
    /\ IsV8(jchip)
    /\ jmode = "unset"
    /\ jmode' = get_mode_v8_pins(jchip, draft)
    /\ UNCHANGED <<procs, blueprint, draft, jchip, perr, pc, v8mode, gal, err, log>>

ModeNext ==
    \/ \E p \in procs : SetMode(p)
    \/ AnalyseModeV8

InitMode ==
    /\ procs = {1}
    /\ jchip \in {"GAL16V8", "GAL20V8"}
    /\ \E S \in { T \in SUBSET (0 .. 7) : Cardinality(T) <= MaxModeUsed } :
        \E a \in [S -> PinTypes \X BOOLEAN] :
            draft = [i \in 0 .. 7 |->
                        IF i \in S THEN PinOlmc(i, a[i][1], a[i][2]) ELSE NewOLMC]
    /\ perr = 0
    /\ jmode = "unset"
    /\ blueprint = [p \in procs |-> ToBlueprint(jchip, draft)]
    /\ pc = [p \in procs |-> "mode"]
    /\ v8mode = [p \in procs |-> "unset"]
    /\ gal = [p \in procs |-> GALnew(jchip)]
    /\ err = [p \in procs |-> NoErr]
    /\ log = [p \in procs |-> <<>>]

SpecMode == InitMode /\ [][ModeNext]_vars

----------------------------------------------------------------------------
(* set_sig alone: signatures of up to MaxSigLen bytes, one byte of which is *)
(* arbitrary and the others all zeros or all ones.                          *)

MaxSigLen == 9

SigNext == \E p \in procs : SetSig(p)

InitSig ==
    /\ procs = {1}
    /\ \E chip \in Chips, len \in 0 .. MaxSigLen, fill \in {0, 255} :
        \E k \in (IF len = 0 THEN {0} ELSE 1 .. len), v \in 0 .. 255 :
            blueprint = [p \in procs |->
                Blueprint(chip, [j \in 1 .. len |-> IF j = k THEN v ELSE fill],
                          [i \in 0 .. NumOlmcs(chip) - 1 |-> DefaultOlmc], NoTerm, NoTerm)]
    /\ pc = [p \in procs |-> "sig"]
    /\ v8mode = [p \in procs |-> "unset"]
    /\ gal = [p \in procs |-> GALnew(blueprint[p].chip)]
    /\ err = [p \in procs |-> NoErr]
    /\ log = [p \in procs |-> <<>>]
    /\ NoDraft

SpecSig == InitSig /\ [][SigNext]_vars

----------------------------------------------------------------------------
(* Two builds side by side, each on a blueprint of its own (possibly the    *)
(* same one), their calls interleaved in every order.                       *)

ParCfgs ==
    { Cfg("Tristate", 1, "High", FALSE, 1, 0, 0, 0),
      Cfg("Registered", 1, "Low", TRUE, 0, 1, 0, 0),
      Cfg("Registered", MaxRows, "High", FALSE, 0, 0, 0, 0),
      Cfg("Combinatorial", 1, "High", TRUE, 0, 0, 0, 0) }

ParBlueprint(chip, c) ==
    Blueprint(chip, SigSample, Olmcs(chip, {3}, [i \in {3} |-> c]), NoTerm, NoTerm)

InitPar ==
    /\ InitBuild({1, 2})
    /\ \E c1 \in Chips, c2 \in Chips, k1 \in ParCfgs, k2 \in ParCfgs :
        blueprint = [p \in {1, 2} |->
                        IF p = 1 THEN ParBlueprint(c1, k1) ELSE ParBlueprint(c2, k2)]
    /\ NoDraft

SpecPar == InitPar /\ [][BuildNext]_vars

----------------------------------------------------------------------------
(* Vocabulary of the claims *)

Olmc(p, i) == blueprint[p].olmcs[i]

Indices(p) == 0 .. NumOlmcs(blueprint[p].chip) - 1

HasOutput(o) == o.output.some

Terminal(p) == pc[p] \in {"ok", "failed"}

\* An add_term call whose term has more rows than its bounds leave.
Oversized(e) == e.term.rows > e.bounds.max_row - e.bounds.row_offset

\* Log entry e is the placement of the main term of OLMC i of build p.
IsMainOf(p, i, e) ==
    /\ e.bounds.start_row = get_bounds(blueprint[p].chip, i).start_row
    /\ e.bounds.max_row = get_bounds(blueprint[p].chip, i).max_row
    /\ IF HasOutput(Olmc(p, i)) THEN e.term = Olmc(p, i).output.term
       ELSE e.term = false_term(0)

\* The row_offset the tristate-bounds table of the specification gives OLMC i.
TableOffset(p, i) ==
    CASE IsV8(blueprint[p].chip) ->
            IF get_mode(gal[p]) = "Mode1" \/ Olmc(p, i).output.mode = "Registered"
            THEN 0 ELSE 1
      [] blueprint[p].chip = "GAL22V10" -> 1
      [] blueprint[p].chip = "GAL20RA10" -> 4

----------------------------------------------------------------------------
(* C2: after a successful build, xor[olmc_count - 1 - i] is true exactly    *)
(* when OLMC i has an output and active = High, and the xor plane has no    *)
(* other bit.                                                               *)

C2_XorIffActiveHighOutput ==
    \A p \in procs :
        pc[p] = "ok" =>
            /\ DOMAIN gal[p].xor = Indices(p)
            /\ \A i \in Indices(p) :
                gal[p].xor[NumOlmcs(blueprint[p].chip) - 1 - i]
                    = (HasOutput(Olmc(p, i)) /\ Olmc(p, i).active = "High")

C2_Witness ==
    \E p \in procs :
        /\ pc[p] = "ok"
        /\ \E i, j \in Indices(p) :
            /\ i < j
            /\ HasOutput(Olmc(p, i)) /\ Olmc(p, i).active = "High"
            /\ HasOutput(Olmc(p, j)) /\ Olmc(p, j).active = "Low"
            /\ gal[p].xor[NumOlmcs(blueprint[p].chip) - 1 - i]
            /\ ~gal[p].xor[NumOlmcs(blueprint[p].chip) - 1 - j]

----------------------------------------------------------------------------
(* C3: after a successful build the tristate-control plane (ac1 on a V8,    *)
(* with com_is_tri = the mode is not Mode 1; s1 on a GAL22V10, with         *)
(* com_is_tri = true) has flags[olmc_count - 1 - i] set exactly when OLMC i *)
(* has no output and feedback, or a Tristate output, or a Combinatorial     *)
(* output while com_is_tri holds.                                           *)

FlagExpected(o, com_is_tri) ==
    \/ ~HasOutput(o) /\ o.feedback
    \/ HasOutput(o) /\ o.output.mode = "Tristate"
    \/ HasOutput(o) /\ o.output.mode = "Combinatorial" /\ com_is_tri

C3_TristateFlags ==
    \A p \in procs :
        pc[p] = "ok" =>
            LET chip == blueprint[p].chip
                n == NumOlmcs(chip)
            IN  /\ IsV8(chip) =>
                    \A i \in Indices(p) :
                        gal[p].ac1[n - 1 - i]
                            = FlagExpected(Olmc(p, i), get_mode(gal[p]) # "Mode1")
                /\ chip = "GAL22V10" =>
                    \A i \in Indices(p) :
                        gal[p].s1[n - 1 - i] = FlagExpected(Olmc(p, i), TRUE)

C3_Witness ==
    \E p \in procs :
        /\ pc[p] = "ok"
        /\ IsV8(blueprint[p].chip)
        /\ get_mode(gal[p]) = "Mode1"
        /\ \E i, j \in Indices(p) :
            /\ HasOutput(Olmc(p, i)) /\ Olmc(p, i).output.mode = "Combinatorial"
            /\ ~gal[p].ac1[7 - i]
            /\ ~HasOutput(Olmc(p, j)) /\ Olmc(p, j).feedback
            /\ gal[p].ac1[7 - j]

----------------------------------------------------------------------------
(* C4 as stated: every OLMC's main term, the false term of an absent output *)
(* included, is placed with the row_offset of the tristate-bounds table.    *)

C4_MainOffsetFollowsTable ==
    \A p \in procs : \A k \in DOMAIN log[p] : \A i \in Indices(p) :
        IsMainOf(p, i, log[p][k]) => log[p][k].bounds.row_offset = TableOffset(p, i)

\* Build p has run set_core_eqns to its end.
PastCore(p) ==
    pc[p] \in (IF blueprint[p].chip = "GAL22V10" THEN {"arsp", "xors", "ok"}
               ELSE {"flags", "aux", "xors", "pts", "ok"})

(* C4 amended: the main term of an OLMC that has an output is placed with   *)
(* the row_offset of the table, and no row above that offset holds a row of *)
(* it; the false term of an OLMC without output is placed with row_offset   *)
(* 0, over the whole region.  Every OLMC gets its main placement.           *)

C4_MainOffsetOfDrivenOlmc ==
    \A p \in procs :
        /\ \A k \in DOMAIN log[p] : \A i \in Indices(p) :
            IsMainOf(p, i, log[p][k]) =>
                log[p][k].bounds.row_offset
                    = (IF HasOutput(Olmc(p, i)) THEN TableOffset(p, i) ELSE 0)
        /\ PastCore(p) =>
            \A i \in Indices(p) :
                LET b == get_bounds(blueprint[p].chip, i)
                IN  /\ \E k \in DOMAIN log[p] : IsMainOf(p, i, log[p][k])
                    /\ HasOutput(Olmc(p, i)) =>
                        \A r \in b.start_row .. b.start_row + TableOffset(p, i) - 1 :
                            gal[p].fuses[r][1] # Olmc(p, i).output.term.line_num

C4_Witness ==
    \E p \in procs :
        /\ pc[p] = "ok"
        /\ IsV8(blueprint[p].chip)
        /\ \E i, j \in Indices(p) : \E k, l \in DOMAIN log[p] :
            /\ HasOutput(Olmc(p, i)) /\ IsMainOf(p, i, log[p][k])
            /\ log[p][k].bounds.row_offset = 1
            /\ ~HasOutput(Olmc(p, j)) /\ IsMainOf(p, j, log[p][l])
            /\ TableOffset(p, j) = 1 /\ log[p][l].bounds.row_offset = 0

----------------------------------------------------------------------------
(* C5: on GAL16V8, GAL20V8 and GAL22V10 a blueprint with a clock, arst or   *)
(* aprst term never gets past the check: build fails with the error of the  *)
(* lowest-indexed such OLMC, in the order CLK, ARST, APRST, at that term's  *)
(* line, before any term is placed.  On GAL20RA10 no such error is raised.  *)

HasAux(o) == o.clock.some \/ o.arst.some \/ o.aprst.some

FirstAux(p) ==
    CHOOSE i \in Indices(p) :
        HasAux(Olmc(p, i)) /\ \A j \in Indices(p) : j < i => ~HasAux(Olmc(p, j))

ExpectedDisallowed(p) ==
    LET o == Olmc(p, FirstAux(p))
    IN  IF o.clock.some THEN at_line(o.clock.line_num, "DisallowedCLK")
        ELSE IF o.arst.some THEN at_line(o.arst.line_num, "DisallowedARST")
        ELSE at_line(o.aprst.line_num, "DisallowedAPRST")

DisallowedCodes == {"DisallowedCLK", "DisallowedARST", "DisallowedAPRST"}

C5_DisallowedBeforePlacement ==
    \A p \in procs :
        /\ (blueprint[p].chip # "GAL20RA10" /\ \E i \in Indices(p) : HasAux(Olmc(p, i))) =>
            /\ pc[p] \in {"idle", "check", "failed"}
            /\ pc[p] = "failed" =>
                /\ err[p] = ExpectedDisallowed(p)
                /\ log[p] = <<>>
                /\ \A r \in DOMAIN gal[p].fuses : gal[p].fuses[r] = ZeroRow
        /\ blueprint[p].chip = "GAL20RA10" => err[p].code \notin DisallowedCodes

C5_Witness ==
    \E p \in procs :
        /\ pc[p] = "failed"
        /\ err[p].code = "DisallowedARST"
        /\ \E i, j \in Indices(p) :
            /\ i < j
            /\ Olmc(p, i).arst.some /\ Olmc(p, i).aprst.some
            /\ err[p].line = Olmc(p, i).arst.line_num
            /\ Olmc(p, j).clock.some

----------------------------------------------------------------------------
(* C6 as stated: a GAL20RA10 blueprint with a Registered output that has no *)
(* clock always fails with NoCLK at the line of such an OLMC's main term.   *)

RegNoClock(o) == HasOutput(o) /\ o.output.mode = "Registered" /\ ~o.clock.some

FirstRegNoClock(p) ==
    CHOOSE i \in Indices(p) :
        RegNoClock(Olmc(p, i)) /\ \A j \in Indices(p) : j < i => ~RegNoClock(Olmc(p, j))

C6_AlwaysNoCLK ==
    \A p \in procs :
        (blueprint[p].chip = "GAL20RA10" /\ \E i \in Indices(p) : RegNoClock(Olmc(p, i))) =>
            /\ pc[p] # "ok"
            /\ pc[p] = "failed" =>
                /\ err[p].code = "NoCLK"
                /\ \E i \in Indices(p) :
                    RegNoClock(Olmc(p, i)) /\ err[p].line = Olmc(p, i).output.term.line_num

(* C6 amended: such a build never succeeds and never reaches set_xors; it   *)
(* fails with NoCLK at the line of the main term of the lowest-indexed      *)
(* Registered OLMC without clock, unless a term placed before that check    *)
(* has too many rows, and then it fails with TooManyProductTerms.           *)

C6_NoCLKUnlessOversized ==
    \A p \in procs :
        (blueprint[p].chip = "GAL20RA10" /\ \E i \in Indices(p) : RegNoClock(Olmc(p, i))) =>
            /\ pc[p] \notin {"xors", "ok"}
            /\ pc[p] = "failed" =>
                IF \E k \in DOMAIN log[p] : Oversized(log[p][k])
                THEN err[p].code = "TooManyProductTerms"
                ELSE err[p] = at_line(Olmc(p, FirstRegNoClock(p)).output.term.line_num, "NoCLK")

C6_Witness ==
    \E p \in procs :
        /\ pc[p] = "failed"
        /\ err[p].code = "NoCLK"
        /\ \E i, j \in Indices(p) :
            /\ i < j
            /\ RegNoClock(Olmc(p, i)) /\ RegNoClock(Olmc(p, j))
            /\ Olmc(p, i).arst.some
            /\ err[p].line = Olmc(p, i).output.term.line_num

----------------------------------------------------------------------------
(* C7: an add_term call whose term has more rows than max_row - row_offset  *)
(* is the last call the build makes: the build fails with                   *)
(* TooManyProductTerms at that term's line, the sub-steps after it (ac1,    *)
(* xor, pt) have not run, and no GAL is returned.  A build that succeeds    *)
(* has placed every term of its blueprint within its bounds.                *)

AllFalse(f) == \A k \in DOMAIN f : ~f[k]

\* Every term the builder of the chip places fits the bounds it is placed with.
EveryTermFits(p) ==
    LET chip == blueprint[p].chip
    IN  /\ \A i \in Indices(p) :
            LET o == Olmc(p, i)
            IN  /\ HasOutput(o) =>
                    o.output.term.rows <= get_bounds(chip, i).max_row - TableOffset(p, i)
                /\ o.tri_con.some => o.tri_con.rows <= 1
                /\ (chip = "GAL20RA10" /\ HasOutput(o) /\ o.clock.some) => o.clock.rows <= 1
                /\ (chip = "GAL20RA10" /\ HasOutput(o) /\ o.output.mode = "Registered") =>
                    /\ o.arst.some => o.arst.rows <= 1
                    /\ o.aprst.some => o.aprst.rows <= 1
        /\ chip = "GAL22V10" =>
            /\ blueprint[p].ar.some => blueprint[p].ar.rows <= 1
            /\ blueprint[p].sp.some => blueprint[p].sp.rows <= 1

C7_OversizedTermFailsBuild ==
    \A p \in procs :
        /\ \A k \in DOMAIN log[p] :
            Oversized(log[p][k]) =>
                /\ k = Len(log[p])
                /\ pc[p] = "failed"
                /\ err[p] = at_line(log[p][k].term.line_num, "TooManyProductTerms")
                /\ AllFalse(gal[p].xor)
                /\ IsV8(blueprint[p].chip) => AllFalse(gal[p].ac1) /\ AllFalse(gal[p].pt)
        /\ err[p].code = "TooManyProductTerms" =>
            log[p] # <<>> /\ Oversized(log[p][Len(log[p])])
        /\ pc[p] = "ok" => EveryTermFits(p)

C7_Witness ==
    \E p \in procs :
        /\ blueprint[p].chip = "GAL16V8"
        /\ Olmc(p, 0).output.term.rows = 9
        /\ Olmc(p, 0).active = "High"
        /\ pc[p] = "failed"
        /\ err[p] = at_line(Olmc(p, 0).output.term.line_num, "TooManyProductTerms")
        /\ AllFalse(gal[p].xor)

----------------------------------------------------------------------------
(* C1: get_mode_v8 returns Mode 3 if any OLMC has a Registered output;      *)
(* otherwise Mode 2 if any has a Tristate output; otherwise Mode 2 if OLMC  *)
(* 3 or 4 has feedback and no output, or any OLMC has feedback and an       *)
(* output; otherwise Mode 1.  Both versions of it agree with that, and the  *)
(* mode read back from the GAL is the mode computed.                        *)

ModeByPriority(olmcs) ==
    IF \E n \in 0 .. 7 : HasOutput(olmcs[n]) /\ olmcs[n].output.mode = "Registered"
    THEN "Mode3"
    ELSE IF \E n \in 0 .. 7 : HasOutput(olmcs[n]) /\ olmcs[n].output.mode = "Tristate"
    THEN "Mode2"
    ELSE IF \/ \E n \in {3, 4} : olmcs[n].feedback /\ ~HasOutput(olmcs[n])
            \/ \E n \in 0 .. 7 : olmcs[n].feedback /\ HasOutput(olmcs[n])
    THEN "Mode2"
    ELSE "Mode1"

C1_ModePriority ==
    \A p \in procs :
        /\ v8mode[p] # "unset" =>
            /\ v8mode[p] = ModeByPriority(blueprint[p].olmcs)
            /\ get_mode(gal[p]) = v8mode[p]
        /\ jmode # "unset" => jmode = ModeByPriority(blueprint[p].olmcs)

C1_Witness ==
    \E p \in procs :
        /\ v8mode[p] = "Mode2"
        /\ jmode = "Mode2"
        /\ \A n \in 0 .. 7 : Olmc(p, n).output.mode \notin {"Tristate", "Registered"}
        /\ \A n \in 0 .. 7 : HasOutput(Olmc(p, n)) => ~Olmc(p, n).feedback
        /\ Olmc(p, 4).feedback /\ ~HasOutput(Olmc(p, 4))
        /\ Olmc(p, 2).feedback /\ ~HasOutput(Olmc(p, 2))
        /\ HasOutput(Olmc(p, 5))

----------------------------------------------------------------------------
(* C8: after set_sig, bit 8i + j of the signature field is bit 7 - j of     *)
(* byte i for each of the first min(len, 8) bytes, every other bit is       *)
(* false, and reading the field MSB-first gives the bytes back, padded with *)
(* zero bytes to 8.                                                         *)

BitOf(c, b) == (c \div Pow2(b)) % 2 = 1

RECURSIVE Unpack(_, _, _)
Unpack(bits, i, j) ==
    IF j = 8 THEN 0
    ELSE (IF bits[8 * i + j] THEN Pow2(7 - j) ELSE 0) + Unpack(bits, i, j + 1)

SigDone(p) == pc[p] \notin {"idle", "check", "sig", "parse"}

C8_SigRoundTrip ==
    \A p \in procs :
        (SigDone(p) /\ pc[p] # "failed") =>
            LET sig == blueprint[p].sig
                n == IF Len(sig) < 8 THEN Len(sig) ELSE 8
            IN  /\ \A i \in 0 .. 7 : \A j \in 0 .. 7 :
                    gal[p].sig[8 * i + j] = (i < n /\ BitOf(sig[i + 1], 7 - j))
                /\ \A i \in 0 .. 7 :
                    Unpack(gal[p].sig, i, 0) = (IF i < n THEN sig[i + 1] ELSE 0)

C8_Witness ==
    \E p \in procs :
        /\ SigDone(p)
        /\ Len(blueprint[p].sig) = 3
        /\ blueprint[p].sig[2] = 166
        /\ blueprint[p].sig[3] = 255
        /\ Unpack(gal[p].sig, 1, 0) = 166
        /\ gal[p].sig[8] /\ ~gal[p].sig[9] /\ ~gal[p].sig[15]
        /\ ~gal[p].sig[24]

----------------------------------------------------------------------------
(* C10: on the GAL16V8/GAL20V8 and the GAL22V10, for every blueprint the    *)
(* setters accept, the row the tristate-enable term of an OLMC is placed in *)
(* (row 0 of the region, row_offset 0 and max_row 1) is none of the rows    *)
(* writable by the main-term placement of the same OLMC, and after the core *)
(* equations both terms stand in the fuses: the enable in row 0, the main   *)
(* term from row 1 on.                                                      *)

IsEnableOf(p, i, e) ==
    /\ Olmc(p, i).tri_con.some
    /\ e.term = Olmc(p, i).tri_con
    /\ e.bounds = [get_bounds(blueprint[p].chip, i) EXCEPT !.row_offset = 0, !.max_row = 1]

C10_EnableRowNotMainRow ==
    \A p \in procs :
        blueprint[p].chip # "GAL20RA10" =>
            \A i \in Indices(p) :
                /\ \A k \in DOMAIN log[p] : \A m \in DOMAIN log[p] :
                    (IsEnableOf(p, i, log[p][k]) /\ IsMainOf(p, i, log[p][m])) =>
                        /\ Writable(log[p][k].bounds) = {get_bounds(blueprint[p].chip, i).start_row}
                        /\ Writable(log[p][k].bounds) \cap Writable(log[p][m].bounds) = {}
                /\ (PastCore(p) /\ Olmc(p, i).tri_con.some) =>
                    LET start == get_bounds(blueprint[p].chip, i).start_row
                        main == Olmc(p, i).output.term
                    IN  /\ gal[p].fuses[start] = <<Olmc(p, i).tri_con.line_num, 1>>
                        /\ \A r \in 1 .. main.rows :
                            gal[p].fuses[start + r] = <<main.line_num, r>>

C10_Witness ==
    \E p \in procs : \E i \in Indices(p) :
        /\ pc[p] = "ok"
        /\ IsV8(blueprint[p].chip)
        /\ draft[i].tri_con # TriNone
        /\ Olmc(p, i).output.mode = "Tristate"
        /\ \E k \in DOMAIN log[p] : IsEnableOf(p, i, log[p][k])
        /\ \E m \in DOMAIN log[p] : IsMainOf(p, i, log[p][m])
        /\ gal[p].fuses[get_bounds(blueprint[p].chip, i).start_row] = <<Line(i, 2), 1>>
        /\ gal[p].fuses[get_bounds(blueprint[p].chip, i).start_row + 1] = <<Line(i, 1), 1>>

----------------------------------------------------------------------------
(* C9: with the calls of two builds interleaved in any order, each build    *)
(* returns what it returns when run alone (the same GAL bit for bit, or the *)
(* same error), no call changes a blueprint, and a call of one build        *)
(* changes nothing of the other build: not its GAL, its position, its       *)
(* error or its placements.                                                 *)

BuildOf(p) == <<pc[p], v8mode[p], gal[p], err[p], log[p]>>

CallLeavesOthersAlone ==
    /\ blueprint' = blueprint
    /\ \A p \in procs : \A q \in procs \ {p} :
        BuildOf(p)' # BuildOf(p) => BuildOf(q)' = BuildOf(q)

C9_BuildIsolated ==
    /\ [](\A p \in procs : Terminal(p) => Cur(p) = build(blueprint[p]))
    /\ [][CallLeavesOthersAlone]_vars

C9_Witness ==
    /\ procs = {1, 2}
    /\ pc[1] = "ok" /\ pc[2] = "failed"
    /\ blueprint[1].chip = blueprint[2].chip
    /\ blueprint[1] # blueprint[2]
    /\ gal[1] # gal[2]
    /\ Cur(1) = build(blueprint[1])
    /\ Cur(2) = build(blueprint[2])

----------------------------------------------------------------------------
(* C11: after a successful build on a GAL16V8/GAL20V8, for every OLMC i     *)
(* that has an output, the main term was placed, and ac1[7 - i] is true     *)
(* exactly when it was placed with row_offset 1; in Mode 1 no OLMC with an  *)
(* output has its ac1 bit set and every main term, the false terms          *)
(* included, was placed with row_offset 0.                                  *)

MainPlacements(p, i) == { k \in DOMAIN log[p] : IsMainOf(p, i, log[p][k]) }

C11_FlagAgreesWithReservedRow ==
    \A p \in procs :
        (pc[p] = "ok" /\ IsV8(blueprint[p].chip)) =>
            /\ \A i \in Indices(p) :
                HasOutput(Olmc(p, i)) =>
                    /\ MainPlacements(p, i) # {}
                    /\ \A k \in MainPlacements(p, i) :
                        /\ log[p][k].bounds.row_offset \in {0, 1}
                        /\ gal[p].ac1[7 - i] <=> (log[p][k].bounds.row_offset = 1)
            /\ get_mode(gal[p]) = "Mode1" =>
                \A i \in Indices(p) :
                    /\ HasOutput(Olmc(p, i)) => ~gal[p].ac1[7 - i]
                    /\ \A k \in MainPlacements(p, i) : log[p][k].bounds.row_offset = 0

C11_Witness ==
    \E p \in procs :
        /\ pc[p] = "ok"
        /\ IsV8(blueprint[p].chip)
        /\ get_mode(gal[p]) = "Mode3"
        /\ \E i, j \in Indices(p) :
            /\ HasOutput(Olmc(p, i)) /\ Olmc(p, i).output.mode = "Registered"
            /\ ~gal[p].ac1[7 - i]
            /\ \E k \in MainPlacements(p, i) : log[p][k].bounds.row_offset = 0
            /\ HasOutput(Olmc(p, j)) /\ Olmc(p, j).output.mode = "Combinatorial"
            /\ gal[p].ac1[7 - j]
            /\ \E k \in MainPlacements(p, j) : log[p][k].bounds.row_offset = 1

====
